---------------------------- MODULE Spec2Model ----------------------------
(***************************************************************************)
(* A model of the local HTTPS reverse proxy (the multi-target variant):   *)
(* the construction of an instance from its config entry, the exit of the *)
(* process, alias and route matching, the per-route                       *)
(* health gate (getOrCreateHealthCheck over checkTargetAvailable), the    *)
(* HTTPS request and WebSocket upgrade handlers with their catch blocks,  *)
(* and the 'error', 'proxyReq' and 'proxyRes' listeners of a route's      *)
(* proxy.                                                                  *)
(*                                                                         *)
(* Strings are sequences of one-character strings.  Time is Date.now() in *)
(* milliseconds.  One action is one turn of the Node event loop: the      *)
(* callback of one event together with the promise continuations          *)
(* (microtasks) it makes runnable, which Node runs to completion before   *)
(* the next event is taken.                                                *)
(***************************************************************************)
EXTENDS Integers, Sequences, FiniteSets, TLC

VARIABLES
    routes,             \* the instance's route table (routes, line 191)
    maxRetryMs,         \* line 144
    retryIntervalMs,    \* line 145
    now,                \* Date.now()
    activeHealthCheck,  \* per route: the shared promise, 0 for null (line 193)
    probes,             \* every checkTargetAvailable run started so far
    reqs,               \* every HTTP request and upgrade received so far
    cur,                \* the last routing decision taken (SpecRoute)
    proc,               \* the process: its config file, instances and exit
    bound               \* the requests and clock steps one behaviour may take

vars == <<routes, maxRetryMs, retryIntervalMs, now, activeHealthCheck, probes, reqs, cur, proc, bound>>

----------------------------------------------------------------------------
(* Bounds of the model *)

\* Requests and upgrades received, and clock steps taken, in one behaviour
\* of the instance (Spec).
MaxReq == 2
MaxTicks == 3
\* The same for one probe sequence followed to its end (SpecProbe,
\* SpecRefusing).
MaxProbeReq == 1
MaxProbeTicks == 6
\* The longest request URL routed in SpecRoute.
MaxUrlLen == 3
\* Requests and upgrades received, and clock steps taken, in one behaviour
\* of SpecRelay, and the transport errors reported for one request.
\* Clock steps taken in one behaviour of SpecAttempts: the default budget
\* of 1000 ms is spent after twenty of them.
MaxAttemptTicks == 21
\* Redirects a client follows in one behaviour of SpecRedirect.
MaxHops == 2
\* HTTPS requests received in one behaviour of SpecOutcome.
MaxOutcomeReq == 1
MaxRelayReq == 2
MaxRelayTicks == 2
MaxProxyErrors == 2

\* Date.now() advances by one of these amounts between two events.
ClockSteps == {50}

----------------------------------------------------------------------------
(* Strings *)

\* String.prototype.startsWith
StartsWith(s, pre) ==
    /\ Len(pre) <= Len(s)
    /\ SubSeq(s, 1, Len(pre)) = pre

\* String.prototype.endsWith
EndsWith(s, suf) ==
    /\ Len(suf) <= Len(s)
    /\ SubSeq(s, Len(s) - Len(suf) + 1, Len(s)) = suf

\* String.prototype.indexOf, 1-based; 0 when pat does not occur in s.
IndexOf(s, pat) ==
    LET hits == {i \in 1..(Len(s) - Len(pat) + 1) : SubSeq(s, i, i + Len(pat) - 1) = pat}
    IN  IF hits = {} THEN 0 ELSE CHOOSE i \in hits : \A j \in hits : i <= j

\* String.prototype.replace with a string pattern: the first occurrence only.
Replace(s, pat, by) ==
    LET i == IndexOf(s, pat)
    IN  IF i = 0 THEN s
        ELSE SubSeq(s, 1, i - 1) \o by \o SubSeq(s, i + Len(pat), Len(s))

\* s.slice(0, -1)
DropLast(s) == SubSeq(s, 1, Len(s) - 1)

----------------------------------------------------------------------------
(* Route table construction, lines 147-185 *)

\* The place of route rc in the sorted prefix acc: after every route whose
\* path is at least as long (Array.prototype.sort is stable).
RECURSIVE InsertRoute(_, _)
InsertRoute(acc, rc) ==
    IF acc = <<>> THEN <<rc>>
    ELSE IF Len(Head(acc).path) >= Len(rc.path)
         THEN <<Head(acc)>> \o InsertRoute(Tail(acc), rc)
         ELSE <<rc>> \o acc

\* routeConfigs.sort((a, b) => b.path.length - a.path.length)
RECURSIVE SortRoutes(_)
SortRoutes(rcs) ==
    IF rcs = <<>> THEN <<>>
    ELSE InsertRoute(SortRoutes(SubSeq(rcs, 1, Len(rcs) - 1)), rcs[Len(rcs)])

\* The single target becomes the fallback route; 0 stands for no target.
SingleTargetRoute(port) ==
    IF port # 0
    THEN <<[name |-> "default", path |-> <<"/">>, port |-> port, aliases |-> <<>>]>>
    ELSE <<>>

\* routeConfigs left in configuration order: the sort of line 185 left out.
BuildRoutes_Unsorted(cfg) == cfg.targets \o SingleTargetRoute(cfg.target)

\* routeConfigs of one proxy entry: the targets map in insertion order, then
\* the single target, sorted by descending path length.
BuildRoutes(cfg) == SortRoutes(cfg.targets \o SingleTargetRoute(cfg.target))

----------------------------------------------------------------------------
(* Instance construction and process exit, lines 126-188 and 507-564 *)

\* A proxy entry and the defaults element are records over the keys of the
\* config file; a key that is absent, or whose value is falsy, holds 0, ""
\* or <<>>.

\* get(key, checkDefault, ...): the entry's value, else the default's, else
\* null (lines 131-140).
get(proxyConfig, defaults, key, checkDefault, null) ==
    IF proxyConfig[key] # null THEN proxyConfig[key]
    ELSE IF checkDefault /\ defaults[key] # null THEN defaults[key]
    ELSE null

\* A check of the required keys that looks at key only.
MissingKey_KeyOnly(proxyConfig, defaults) ==
    IF get(proxyConfig, defaults, "key", TRUE, "") = "" THEN "key" ELSE ""

\* The first of key, cert and hostname for which get(..., false) throws, ""
\* when none does (lines 133-143).
MissingKey(proxyConfig, defaults) ==
    IF get(proxyConfig, defaults, "key", TRUE, "") = "" THEN "key"
    ELSE IF get(proxyConfig, defaults, "cert", TRUE, "") = "" THEN "cert"
    ELSE IF get(proxyConfig, defaults, "hostname", TRUE, "") = "" THEN "hostname"
    ELSE ""

\* An alias validation that accepts everything.
BadAlias_Accept(targets) == FALSE

\* The validation of lines 158-163 throws for some alias of some target.
BadAlias(targets) ==
    \E i \in 1..Len(targets) : \E k \in 1..Len(targets[i].aliases) :
        /\ EndsWith(targets[i].aliases[k], <<"/">>)
        /\ targets[i].aliases[k] # <<"/">>

\* The construction of the instance of one proxy entry (lines 126-235 and
\* 507): the error thrown (state "failed", field names what is missing or
\* wrong), or the listening instance with its route table, each route with
\* its own forwarding proxy.
NewInstance(proxyConfig, defaults) ==
    LET missing == MissingKey(proxyConfig, defaults)
        maxRetry == get(proxyConfig, defaults, "maxRetryMs", TRUE, 0)
        retryInterval == get(proxyConfig, defaults, "retryIntervalMs", TRUE, 0)
        routeConfigs == BuildRoutes(proxyConfig)
        source == get(proxyConfig, defaults, "source", FALSE, 0)
        failed(field) ==
            [name |-> proxyConfig.name, state |-> "failed", field |-> field,
             source |-> 0, routes |-> <<>>, maxRetryMs |-> 0, retryIntervalMs |-> 0,
             listening |-> FALSE, proxies |-> {}]
    IN  IF missing # "" THEN failed(missing)
        ELSE IF BadAlias(proxyConfig.targets) THEN failed("aliases")
        ELSE IF routeConfigs = <<>> THEN failed("target or targets")
        ELSE [name |-> proxyConfig.name, state |-> "listening", field |-> "",
              source |-> IF source # 0 THEN source ELSE routeConfigs[1].port + 1000,
              routes |-> routeConfigs,
              maxRetryMs |-> IF maxRetry # 0 THEN maxRetry ELSE 1000,
              retryIntervalMs |-> IF retryInterval # 0 THEN retryInterval ELSE 50,
              listening |-> TRUE, proxies |-> 1..Len(routeConfigs)]

\* An 'exit' listener that closes the HTTPS server only.
OnExit_ServerOnly(inst) == [inst EXCEPT !.listening = FALSE]

\* The 'exit' listener of an instance (lines 535-539): server.close() and
\* route.proxy.close() for every route.
OnExit(inst) == [inst EXCEPT !.listening = FALSE, !.proxies = {}]

\* process.exit(code) for the reason cause: the 'exit' listeners of the
\* instances constructed so far run, and the process ends.
Exit(pr, cause, code) ==
    [pr EXCEPT !.state = "exited", !.cause = cause, !.exitCode = code,
               !.insts = [i \in DOMAIN pr.insts |-> OnExit(pr.insts[i])]]

\* The loop over the entries of the config file from entry i on (line 126):
\* the instances constructed, and the entry whose construction threw.
RECURSIVE ConstructFrom(_, _, _, _)
ConstructFrom(config, defaults, i, insts) ==
    IF i > Len(config) THEN [insts |-> insts, thrown |-> 0]
    ELSE LET inst == NewInstance(config[i], defaults)
         IN  IF inst.state = "failed"
             THEN [insts |-> insts, thrown |-> i]
             ELSE ConstructFrom(config, defaults, i + 1, Append(insts, inst))

\* The run of the module at startup: every entry constructed and the
\* process running, or the exception of the first entry that fails, which
\* nothing catches, and the exit with status 1.
Startup(pr) ==
    LET c == ConstructFrom(pr.config, pr.defaults, 1, <<>>)
        built == [pr EXCEPT !.insts = c.insts]
    IN  IF c.thrown = 0
        THEN [built EXCEPT !.state = "running"]
        ELSE Exit([built EXCEPT !.error = NewInstance(pr.config[c.thrown], pr.defaults)],
                  "uncaughtException", 1)

\* The process before the module has run.
Starting(config, defaults) ==
    [state |-> "starting", config |-> config, defaults |-> defaults, insts |-> <<>>,
     error |-> [name |-> "", state |-> "none", field |-> "", source |-> 0,
                routes |-> <<>>, maxRetryMs |-> 0, retryIntervalMs |-> 0,
                listening |-> FALSE, proxies |-> {}],
     cause |-> "none", exitCode |-> 0]

----------------------------------------------------------------------------
(* Alias and route matching, lines 320-365 *)

\* url === p || url.startsWith(p + '/') || url.startsWith(p + '?')
MatchesPath(url, p) ==
    \/ url = p
    \/ StartsWith(url, p \o <<"/">>)
    \/ StartsWith(url, p \o <<"?">>)

\* A route predicate that takes any string prefix for a match.
RouteMatches_Prefix(route, url) ==
    \/ route.path = <<"/">>
    \/ StartsWith(url, route.path)

\* A route predicate without the special case of '/'.
RouteMatches_NoFallback(route, url) == MatchesPath(url, route.path)

\* The predicate of routes.find: '/' matches everything.
RouteMatches(route, url) ==
    \/ route.path = <<"/">>
    \/ MatchesPath(url, route.path)

\* routes.find(...): the index of the first matching route, 0 for undefined.
FindRoute(rts, url) ==
    LET hits == {i \in 1..Len(rts) : RouteMatches(rts[i], url)}
    IN  IF hits = {} THEN 0 ELSE CHOOSE i \in hits : \A j \in hits : i <= j

\* The alias loop: the first (route, alias) pair, in table order and then in
\* alias order, whose alias matches; <<0, 0>> when the loop falls through.
AliasHit(rts, url) ==
    LET pairs == UNION {{<<i, k>> : k \in 1..Len(rts[i].aliases)} : i \in 1..Len(rts)}
        hits == {ra \in pairs : MatchesPath(url, rts[ra[1]].aliases[ra[2]])}
    IN  IF hits = {} THEN <<0, 0>>
        ELSE CHOOSE ra \in hits :
                \A rb \in hits : ra[1] < rb[1] \/ (ra[1] = rb[1] /\ ra[2] <= rb[2])

\* A mainPath that keeps the trailing slash of the route's path.
MainPath_Keep(path) == path

\* mainPath: the route's path without its trailing slash, '/' kept.
MainPath(path) ==
    IF EndsWith(path, <<"/">>) /\ path # <<"/">> THEN DropLast(path) ELSE path

\* redirectUrl = req.url.replace(alias, mainPath)
RedirectUrl(url, alias, path) == Replace(url, alias, MainPath(path))

----------------------------------------------------------------------------
(* checkTargetAvailable, lines 34-124 *)

\* socket.setTimeout(timeout), line 49
timeout == 100

\* A run of checkTargetAvailable is a record: route, startTime and retryCount
\* as in the code; pc, the await it is suspended at ("connecting": the socket
\* promise, "waiting": the setTimeout promise) or "done"; at, when that
\* socket.connect or setTimeout was called; err, the error caught while in
\* the catch block; result, the value its promise settled with; exit, the
\* return statement taken ("connect": line 80, "catch": line 95, "loop":
\* line 123); resolvedAt, when it returned; attempts and delays, the calls of
\* socket.connect and of setTimeout made so far.

\* A return of the async function: the promise settles with value v.
Return(p, v, exit, t) ==
    [p EXCEPT !.pc = "done", !.result = IF v THEN "true" ELSE "false",
              !.exit = exit, !.resolvedAt = t]

\* A loop head that budgets attempts instead of elapsed time.
LoopTop_ByCount(p, t) ==
    IF p.retryCount * retryIntervalMs < maxRetryMs
    THEN [p EXCEPT !.pc = "connecting", !.at = t, !.attempts = @ + 1]
    ELSE Return(p, FALSE, "loop", t)

\* A loop head that makes one more attempt when the budget is exactly spent.
LoopTop_Inclusive(p, t) ==
    IF t - p.startTime <= maxRetryMs
    THEN [p EXCEPT !.pc = "connecting", !.at = t, !.attempts = @ + 1]
    ELSE Return(p, FALSE, "loop", t)

\* A loop head without a budget.
LoopTop_Forever(p, t) == [p EXCEPT !.pc = "connecting", !.at = t, !.attempts = @ + 1]

\* The head of the while loop at time t (line 45): one more connection
\* attempt while the budget lasts, else return false.
LoopTop(p, t) ==
    IF t - p.startTime < maxRetryMs
    THEN [p EXCEPT !.pc = "connecting", !.at = t, !.attempts = @ + 1]
    ELSE Return(p, FALSE, "loop", t)

\* The call checkTargetAvailable(hostname, port, ...) at time t: the code up
\* to its first await.
checkTargetAvailable(r, t) ==
    LoopTop([route |-> r, startTime |-> t, retryCount |-> 0, pc |-> "start",
             at |-> t, err |-> "none", result |-> "pending", exit |-> "none",
             resolvedAt |-> 0, attempts |-> 0, delays |-> 0], t)

\* A connect handler that counts the successful attempt as a retry.
OnConnect_CountsRetry(p, t) == Return([p EXCEPT !.retryCount = @ + 1], TRUE, "connect", t)

\* socket 'connect' at time t: resolve(), then return true (lines 53-80).
OnConnect(p, t) == Return(p, TRUE, "connect", t)

\* A catch block that gives up when the next wait would overrun the budget.
OnReject_NoRoomForWait(p, t, err) ==
    LET elapsed == t - p.startTime
        q == [p EXCEPT !.retryCount = @ + 1]
    IN  IF elapsed + retryIntervalMs >= maxRetryMs
        THEN Return(q, FALSE, "catch", t)
        ELSE [q EXCEPT !.pc = "waiting", !.at = t, !.err = err, !.delays = @ + 1]

\* A catch block that retries connection refusals only.
OnReject_RefusedOnly(p, t, err) ==
    LET elapsed == t - p.startTime
        q == [p EXCEPT !.retryCount = @ + 1]
    IN  IF elapsed >= maxRetryMs \/ err # "ECONNREFUSED"
        THEN Return(q, FALSE, "catch", t)
        ELSE [q EXCEPT !.pc = "waiting", !.at = t, !.err = err, !.delays = @ + 1]

\* A catch block that handles connection refusals and rethrows every other
\* error: the promise of checkTargetAvailable rejects.
OnReject_Rethrow(p, t, err) ==
    LET elapsed == t - p.startTime
        q == [p EXCEPT !.retryCount = @ + 1]
    IN  IF err # "ECONNREFUSED"
        THEN [q EXCEPT !.pc = "done", !.result = "rejected", !.exit = "throw", !.resolvedAt = t]
        ELSE IF elapsed >= maxRetryMs
        THEN Return(q, FALSE, "catch", t)
        ELSE [q EXCEPT !.pc = "waiting", !.at = t, !.err = err, !.delays = @ + 1]

\* A catch block that never retries.
OnReject_GiveUp(p, t, err) == Return([p EXCEPT !.retryCount = @ + 1], FALSE, "catch", t)

\* The catch block at time t for the rejection err (lines 82-120): count the
\* retry, return false when the budget is spent, else setTimeout.
OnReject(p, t, err) ==
    LET elapsed == t - p.startTime
        q == [p EXCEPT !.retryCount = @ + 1]
    IN  IF elapsed >= maxRetryMs
        THEN Return(q, FALSE, "catch", t)
        ELSE [q EXCEPT !.pc = "waiting", !.at = t, !.err = err, !.delays = @ + 1]

\* The setTimeout callback at time t (line 119): back to the loop head.
OnTimer(p, t) == LoopTop([p EXCEPT !.err = "none"], t)

----------------------------------------------------------------------------
(* getOrCreateHealthCheck, lines 199-215 *)

\* A finally callback that leaves the settled promise in place.
OnFinally_Keep(h) == h

\* The finally callback (line 211): the value activeHealthCheck takes.
OnFinally(h) == 0

\* getOrCreateHealthCheck without the test of activeHealthCheck: every call
\* starts a probe sequence of its own.
getOrCreateHealthCheck_NoDedup(r, isDevTooling, ahc, ps, t) ==
    [promise |-> Len(ps) + 1,
     probes  |-> Append(ps, checkTargetAvailable(r, t)),
     active  |-> [ahc EXCEPT ![r] = Len(ps) + 1]]

\* getOrCreateHealthCheck sharing the sequence among ordinary callers only:
\* a dev-tooling upgrade starts its own.
getOrCreateHealthCheck_DevToolingOwn(r, isDevTooling, ahc, ps, t) ==
    IF ahc[r] = 0 \/ isDevTooling
    THEN [promise |-> Len(ps) + 1,
          probes  |-> Append(ps, checkTargetAvailable(r, t)),
          active  |-> [ahc EXCEPT ![r] = Len(ps) + 1]]
    ELSE [promise |-> ahc[r], probes |-> ps, active |-> ahc]

\* getOrCreateHealthCheck over one activeHealthCheck for the whole instance:
\* a caller joins the pending sequence of whichever route has one.
getOrCreateHealthCheck_Shared(r, isDevTooling, ahc, ps, t) ==
    IF \A o \in DOMAIN ahc : ahc[o] = 0
    THEN [promise |-> Len(ps) + 1,
          probes  |-> Append(ps, checkTargetAvailable(r, t)),
          active  |-> [ahc EXCEPT ![r] = Len(ps) + 1]]
    ELSE [promise |-> ahc[CHOOSE o \in DOMAIN ahc : ahc[o] # 0], probes |-> ps, active |-> ahc]

\* The call route.getOrCreateHealthCheck(isDevTooling) for route r at time t.
\* A promise is named by the index of its checkTargetAvailable run.
getOrCreateHealthCheck(r, isDevTooling, ahc, ps, t) ==
    IF ahc[r] = 0
    THEN [promise |-> Len(ps) + 1,
          probes  |-> Append(ps, checkTargetAvailable(r, t)),
          active  |-> [ahc EXCEPT ![r] = Len(ps) + 1]]
    ELSE [promise |-> ahc[r], probes |-> ps, active |-> ahc]

\* The promises that settled in this turn.
SettledNow(old, ps) ==
    {p \in DOMAIN ps : ps[p].pc = "done" /\ (p \notin DOMAIN old \/ old[p].pc # "done")}

\* The finally callbacks of the promises settled in this turn.
RunFinally(ahc, old, ps) ==
    [r \in DOMAIN ahc |->
        IF \E p \in SettledNow(old, ps) : ps[p].route = r
        THEN OnFinally(ahc[r]) ELSE ahc[r]]

----------------------------------------------------------------------------
(* The request and upgrade handlers, lines 299-505 *)

\* A request handler that matches routes before it looks at aliases.
HttpDecision_RouteFirst(rts, url) ==
    LET hit == AliasHit(rts, url)
        m == FindRoute(rts, url)
    IN  IF m # 0
        THEN [outcome |-> "route", route |-> m, location |-> <<>>]
        ELSE IF hit # <<0, 0>>
        THEN [outcome |-> "redirect", route |-> hit[1],
              location |-> RedirectUrl(url, rts[hit[1]].aliases[hit[2]], rts[hit[1]].path)]
        ELSE [outcome |-> "notfound", route |-> 0, location |-> <<>>]

\* The routing part of the HTTPS request handler (lines 320-378): an alias
\* redirect, no route, or the matched route.
HttpDecision(rts, url) ==
    LET hit == AliasHit(rts, url)
        m == FindRoute(rts, url)
    IN  IF hit # <<0, 0>>
        THEN [outcome |-> "redirect", route |-> hit[1],
              location |-> RedirectUrl(url, rts[hit[1]].aliases[hit[2]], rts[hit[1]].path)]
        ELSE IF m = 0
        THEN [outcome |-> "notfound", route |-> 0, location |-> <<>>]
        ELSE [outcome |-> "route", route |-> m, location |-> <<>>]

\* The routing part of the upgrade handler (lines 446-467): no alias loop.
UpgradeDecision(rts, url) ==
    LET m == FindRoute(rts, url)
    IN  IF m = 0
        THEN [outcome |-> "notfound", route |-> 0, location |-> <<>>]
        ELSE [outcome |-> "route", route |-> m, location |-> <<>>]

\* The headers of a request or of a response that has none of the rewritten
\* ones (<<>> stands for a header that is absent or empty).
NoHeaders == [origin |-> <<>>, referer |-> <<>>]
NoResHeaders == [location |-> <<>>, acao |-> <<>>, link |-> <<>>]

\* A request as received: nothing written, nothing awaited.  gateAt is the
\* time at which the handler, in the turn the request arrived, reached its
\* await of the health gate; headersSent is
\* res.headersSent; fault, the place where handling this request raises an
\* exception ("none", "early": before the routing, "end": in the res.end
\* that follows a writeHead, "forward": in proxy.web or proxy.ws); caught and
\* escaped, whether the exception reached the handler's catch block or left
\* the handler; errors, the 'error' events of the route's proxy for this
\* request; wrote502, the 502 responses the 'error' listener wrote; heads,
\* the calls of res.writeHead made by the handler, its catch block and the
\* 'error' listener; headers,
\* the request headers as received, and out, as set on proxyReq; backend, the
\* response headers as the backend sent them, and delivered, as passed on.
NewRequest(kind, url) ==
    [kind |-> kind, url |-> url, pc |-> "done", route |-> 0, awaiting |-> 0,
     verdict |-> "none", status |-> 0, web |-> 0, ws |-> 0, location |-> <<>>,
     gateAt |-> 0,
     started |-> FALSE, pendingAtCall |-> {}, stale |-> FALSE,
     headersSent |-> FALSE, fault |-> "none", caught |-> FALSE, escaped |-> FALSE,
     errors |-> 0, wrote502 |-> 0, heads |-> 0,
     headers |-> NoHeaders, out |-> NoHeaders,
     backend |-> NoResHeaders, delivered |-> NoResHeaders]

\* A catch block that lets the exception go on to the caller.
HttpCatch_Rethrow(rq) == [rq EXCEPT !.pc = "done", !.escaped = TRUE]

\* A catch block that answers 500 whatever was sent before.
HttpCatch_Always(rq) ==
    [rq EXCEPT !.pc = "done", !.caught = TRUE, !.status = 500, !.headersSent = TRUE,
               !.heads = @ + 1]

\* The catch block of the HTTPS request handler (lines 402-415).
HttpCatch(rq) ==
    IF ~rq.headersSent
    THEN [rq EXCEPT !.pc = "done", !.caught = TRUE, !.status = 500, !.headersSent = TRUE,
                    !.heads = @ + 1]
    ELSE [rq EXCEPT !.pc = "done", !.caught = TRUE]

\* The catch block of the upgrade handler (lines 496-504).
UpgradeCatch(rq) == [rq EXCEPT !.pc = "done", !.caught = TRUE, !.status = 500]

\* An 'error' listener that answers 502 whatever was sent before.
OnProxyError_Always(rq) ==
    [rq EXCEPT !.pc = "failed", !.errors = @ + 1,
               !.status = 502, !.headersSent = TRUE, !.wrote502 = @ + 1, !.heads = @ + 1]

\* The 'error' listener (lines 240-254).  res is the response of an HTTP
\* request and the socket of an upgrade, which has no writeHead.
OnProxyError(rq) ==
    IF rq.kind = "http" /\ ~rq.headersSent
    THEN [rq EXCEPT !.pc = "failed", !.errors = @ + 1,
                    !.status = 502, !.headersSent = TRUE, !.wrote502 = @ + 1,
                    !.heads = @ + 1]
    ELSE [rq EXCEPT !.pc = "failed", !.errors = @ + 1]

\* The handler at its await of the health gate (lines 382 and 470): what the
\* call returned, and what the route's probe state was when it was made.
AtGate(rq, m, g, ps, t) ==
    [rq EXCEPT !.pc = "await", !.route = m, !.awaiting = g.promise, !.gateAt = t,
               !.started = Len(g.probes) > Len(ps),
               !.pendingAtCall = {p \in DOMAIN ps : ps[p].route = m /\ ps[p].pc # "done"},
               !.stale = g.promise \in DOMAIN ps /\ ps[g.promise].pc = "done"]

\* A request handler that asks for the health check of the first route
\* before it answers a redirect or a 404.
HttpHandler_ProbeFirst(url, rqs, ps, ahc, t) ==
    LET d == HttpDecision(routes, url)
        rq == NewRequest("http", url)
        g == getOrCreateHealthCheck(IF d.route = 0 THEN 1 ELSE d.route, FALSE, ahc, ps, t)
    IN  IF d.outcome = "redirect"
        THEN [reqs |-> Append(rqs, [rq EXCEPT !.status = 301, !.location = d.location,
                                               !.headersSent = TRUE, !.heads = @ + 1]),
              probes |-> g.probes, active |-> g.active]
        ELSE IF d.outcome = "notfound"
        THEN [reqs |-> Append(rqs, [rq EXCEPT !.status = 404, !.headersSent = TRUE,
                                               !.heads = @ + 1]),
              probes |-> g.probes, active |-> g.active]
        ELSE [reqs |-> Append(rqs, AtGate(rq, d.route, g, ps, t)),
              probes |-> g.probes, active |-> g.active]

\* The HTTPS request handler up to its await (lines 299-382).
HttpHandler(url, rqs, ps, ahc, t) ==
    LET d == HttpDecision(routes, url)
        rq == NewRequest("http", url)
        g == getOrCreateHealthCheck(d.route, FALSE, ahc, ps, t)
    IN  IF d.outcome = "redirect"
        THEN [reqs |-> Append(rqs, [rq EXCEPT !.status = 301, !.location = d.location,
                                               !.headersSent = TRUE, !.heads = @ + 1]),
              probes |-> ps, active |-> ahc]
        ELSE IF d.outcome = "notfound"
        THEN [reqs |-> Append(rqs, [rq EXCEPT !.status = 404, !.headersSent = TRUE,
                                               !.heads = @ + 1]),
              probes |-> ps, active |-> ahc]
        ELSE [reqs |-> Append(rqs, AtGate(rq, d.route, g, ps, t)),
              probes |-> g.probes, active |-> g.active]

\* The upgrade handler up to its await (lines 420-470).
UpgradeHandler(url, isDevTooling, rqs, ps, ahc, t) ==
    LET d == UpgradeDecision(routes, url)
        rq == NewRequest("ws", url)
        g == getOrCreateHealthCheck(d.route, isDevTooling, ahc, ps, t)
    IN  IF d.outcome = "notfound"
        THEN [reqs |-> Append(rqs, [rq EXCEPT !.status = 404]),
              probes |-> ps, active |-> ahc]
        ELSE [reqs |-> Append(rqs, AtGate(rq, d.route, g, ps, t)),
              probes |-> g.probes, active |-> g.active]

\* The handler without the return that ends its 502 branch: it goes on to
\* proxy.web.
HttpAfterGate_NoReturn(rq, targetAvailable) ==
    IF ~targetAvailable
    THEN [rq EXCEPT !.pc = "forwarding", !.verdict = "false", !.status = 502,
                    !.heads = @ + 1, !.web = @ + 1]
    ELSE [rq EXCEPT !.pc = "forwarding", !.verdict = "true", !.web = @ + 1]

\* The HTTPS request handler after its await (lines 384-415): the 502, or
\* proxy.web; the catch block when the res.end or the proxy.web of this
\* request throws ("error-forward": after the proxy has emitted 'error' for
\* it).
HttpAfterGate(rq, targetAvailable) ==
    IF ~targetAvailable
    THEN LET w == [rq EXCEPT !.pc = "done", !.verdict = "false", !.status = 502,
                             !.headersSent = TRUE, !.heads = @ + 1]
         IN  IF rq.fault = "end" THEN HttpCatch(w) ELSE w
    ELSE LET f == [rq EXCEPT !.pc = "forwarding", !.verdict = "true", !.web = @ + 1]
         IN  IF rq.fault = "forward" THEN HttpCatch(f)
             ELSE IF rq.fault = "error-forward" THEN HttpCatch(OnProxyError(f))
             ELSE f

\* The upgrade handler without the return that ends its 502 branch: it goes
\* on to proxy.ws.
UpgradeAfterGate_NoReturn(rq, targetAvailable) ==
    IF ~targetAvailable
    THEN [rq EXCEPT !.pc = "forwarding", !.verdict = "false", !.status = 502, !.ws = @ + 1]
    ELSE [rq EXCEPT !.pc = "forwarding", !.verdict = "true", !.ws = @ + 1]

\* The upgrade handler after its await (lines 472-504): the 502 status line,
\* or proxy.ws; the catch block when the proxy.ws of this upgrade throws.
UpgradeAfterGate(rq, targetAvailable) ==
    IF ~targetAvailable
    THEN [rq EXCEPT !.pc = "done", !.verdict = "false", !.status = 502]
    ELSE LET f == [rq EXCEPT !.pc = "forwarding", !.verdict = "true", !.ws = @ + 1]
         IN  IF rq.fault = "forward" THEN UpgradeCatch(f) ELSE f

\* The continuations of every handler whose awaited promise has settled:
\* the await sits in the try block, so a promise that rejected takes the
\* handler to its catch block.
Resume(rqs, ps) ==
    [q \in DOMAIN rqs |->
        IF rqs[q].pc = "await" /\ ps[rqs[q].awaiting].pc = "done"
        THEN IF ps[rqs[q].awaiting].result = "rejected"
             THEN IF rqs[q].kind = "http"
                  THEN HttpCatch([rqs[q] EXCEPT !.verdict = "rejected"])
                  ELSE UpgradeCatch([rqs[q] EXCEPT !.verdict = "rejected"])
             ELSE IF rqs[q].kind = "http"
             THEN HttpAfterGate(rqs[q], ps[rqs[q].awaiting].result = "true")
             ELSE UpgradeAfterGate(rqs[q], ps[rqs[q].awaiting].result = "true")
        ELSE rqs[q]]

\* The end of a turn of the event loop: the microtasks run, the finally
\* callbacks before the continuations of the handlers awaiting them.
Turn(rqs, ps, ahc) ==
    /\ probes' = ps
    /\ activeHealthCheck' = RunFinally(ahc, probes, ps)
    /\ reqs' = Resume(rqs, ps)

\* The try block of the HTTPS request handler with its catch block, up to
\* the await (lines 299-416), for a request with headers hdrs whose handling
\* raises an exception at fault.
HttpTry(url, fault, hdrs, rqs, ps, ahc, t) ==
    LET received == [NewRequest("http", url) EXCEPT !.fault = fault, !.headers = hdrs]
        h == HttpHandler(url, rqs, ps, ahc, t)
        n == Len(h.reqs)
        rq == [h.reqs[n] EXCEPT !.fault = fault, !.headers = hdrs]
    IN  IF fault = "early"
        THEN [reqs |-> Append(rqs, HttpCatch(received)), probes |-> ps, active |-> ahc]
        ELSE IF fault = "end" /\ rq.headersSent
        THEN [h EXCEPT !.reqs[n] = HttpCatch(rq)]
        ELSE [h EXCEPT !.reqs[n] = rq]

\* The try block of the upgrade handler with its catch block, up to the
\* await (lines 420-505).
UpgradeTry(url, fault, rqs, ps, ahc, t) ==
    LET received == [NewRequest("ws", url) EXCEPT !.fault = fault]
        h == UpgradeHandler(url, FALSE, rqs, ps, ahc, t)
        n == Len(h.reqs)
    IN  IF fault = "early"
        THEN [reqs |-> Append(rqs, UpgradeCatch(received)), probes |-> ps, active |-> ahc]
        ELSE [h EXCEPT !.reqs[n].fault = fault]

----------------------------------------------------------------------------
(* The listeners of a route's proxy, lines 238-291 *)

Https == <<"h", "t", "t", "p", "s", ":">>
Http == <<"h", "t", "t", "p", ":">>

\* A replacement of the first occurrence anywhere: the regular expression
\* without its '^'.
ReplaceLeading_Anywhere(s, from, to) == Replace(s, from, to)

\* s.replace(/^from/, to)
ReplaceLeading(s, from, to) ==
    IF StartsWith(s, from) THEN to \o SubSeq(s, Len(from) + 1, Len(s)) ELSE s

\* The 'proxyReq' listener (lines 257-267): the headers set on proxyReq.
OnProxyReq(rq) ==
    [rq EXCEPT !.pc = "relaying",
               !.out = [origin  |-> IF rq.headers.origin # <<>>
                                    THEN ReplaceLeading(rq.headers.origin, Https, Http)
                                    ELSE rq.headers.origin,
                        referer |-> IF rq.headers.referer # <<>>
                                    THEN ReplaceLeading(rq.headers.referer, Https, Http)
                                    ELSE rq.headers.referer]]

\* A 'proxyRes' listener that rewrites every header of the response.
OnProxyRes_AllHeaders(rq, h) ==
    [rq EXCEPT !.pc = "responding", !.status = 200, !.headersSent = TRUE,
               !.backend = h,
               !.delivered = [k \in DOMAIN h |-> ReplaceLeading(h[k], Http, Https)]]

\* The 'proxyRes' listener (lines 270-290) for the backend's response with
\* headers h, which the proxy then writes to the client.
OnProxyRes(rq, h) ==
    [rq EXCEPT !.pc = "responding", !.status = 200, !.headersSent = TRUE,
               !.backend = h,
               !.delivered = [h EXCEPT !.location = IF @ # <<>>
                                                    THEN ReplaceLeading(@, Http, Https)
                                                    ELSE @,
                                       !.acao = IF @ # <<>>
                                                THEN ReplaceLeading(@, Http, Https)
                                                ELSE @]]

----------------------------------------------------------------------------
(* Configurations and requests of the model *)

PathA == <<"/", "a">>
PathX == <<"/", "x">>

\* Proxy entries of Spec: a targets map with an alias and a fallback target,
\* and a targets map without a fallback.
Configs ==
    { [targets |-> <<[name |-> "api", path |-> PathA, port |-> 3000, aliases |-> <<PathX>>]>>,
       target |-> 5173, maxRetryMs |-> 100, retryIntervalMs |-> 50],
      [targets |-> <<[name |-> "api", path |-> PathA, port |-> 3000, aliases |-> <<>>]>>,
       target |-> 0, maxRetryMs |-> 100, retryIntervalMs |-> 50] }

\* Proxy entries of SpecRelay: the one with an alias and a fallback target.
RelayConfigs == {c \in Configs : c.target # 0}

\* Request URLs of Spec: the route's path, and its alias.
Urls == {PathA, PathX}

\* Proxy entries of SpecProbe: a single target, under each retry budget and
\* interval.
RetryBudgets == {100, 150, 200}
RetryIntervals == {50, 100}
ProbeConfigs ==
    { [targets |-> <<>>, target |-> 9000, maxRetryMs |-> b, retryIntervalMs |-> i] :
        b \in RetryBudgets, i \in RetryIntervals }

\* Proxy entries of SpecAttempts: those of SpecProbe, and one that leaves
\* maxRetryMs and retryIntervalMs to their defaults.
AttemptConfigs ==
    ProbeConfigs \cup {[targets |-> <<>>, target |-> 9000, maxRetryMs |-> 0, retryIntervalMs |-> 0]}

\* Socket errors other than the idle timeout, by err.code.
ErrorCodes == {"ECONNREFUSED", "EHOSTUNREACH"}

\* Proxy entries of SpecRoute: up to two named targets and an optional
\* fallback target.
TargetPaths == {<<"/", "a">>, <<"/", "b">>, <<"/", "a", "b">>, <<"/", "a", "/">>, <<"/">>}
AliasLists == {<<>>, <<<<"/", "b">>>>}
ApiTargets ==
    {[name |-> "api", path |-> p, port |-> 3000, aliases |-> a] :
        p \in TargetPaths, a \in AliasLists}
AdminTargets ==
    {[name |-> "admin", path |-> p, port |-> 8080, aliases |-> a] :
        p \in TargetPaths, a \in AliasLists}
RouteConfigs ==
    {c \in [targets : {<<>>} \cup {<<x>> : x \in ApiTargets}
                        \cup {<<x, y>> : x \in ApiTargets, y \in AdminTargets},
            target : {0, 5173}, maxRetryMs : {100}, retryIntervalMs : {50}] :
        c.targets # <<>> \/ c.target # 0}

\* Every request URL of at most n characters.
UrlChars == {"/", "a", "b", "?"}
RECURSIVE UrlsUpTo(_)
UrlsUpTo(n) ==
    IF n = 0 THEN {<<>>}
    ELSE LET shorter == UrlsUpTo(n - 1)
         IN  shorter \cup {Append(u, c) : u \in {v \in shorter : Len(v) = n - 1}, c \in UrlChars}
AllUrls == UrlsUpTo(MaxUrlLen) \ {<<>>}

\* The places where the handling of a request, and of an upgrade, raises an
\* exception.
HttpFaults == {"none", "early", "end", "forward"}
UpgradeFaults == {"none", "early", "forward"}

\* Header values: none, with the scheme https:, with the scheme http:,
\* without a scheme, and with "https:" or "http:" past their first character.
Host == <<"/", "/", "h">>
HeaderValues ==
    { <<>>, Https \o Host, Http \o Host, Host, Https, Http,
      <<"x">> \o Https, <<"x">> \o Http }
RequestHeaders == [origin : HeaderValues, referer : HeaderValues]
ResponseHeaders == [location : HeaderValues, acao : HeaderValues, link : {Http \o Host}]

NoDecision == [url |-> <<>>, kind |-> "none", outcome |-> "none", route |-> 0, location |-> <<>>]

\* The defaults element of the config file: absent, or one that gives the
\* certificate, its key, the hostname and a retry budget.
NoDefaults == [key |-> "", cert |-> "", hostname |-> "", maxRetryMs |-> 0, retryIntervalMs |-> 0]
DefaultsElements ==
    { NoDefaults,
      [key |-> "d-key.pem", cert |-> "d.pem", hostname |-> "localhost",
       maxRetryMs |-> 200, retryIntervalMs |-> 0] }

\* The keys of a proxy entry that the entries of the other specifications
\* leave out.
Entry(cfg) ==
    [name |-> "proxy", key |-> "key.pem", cert |-> "cert.pem", hostname |-> "localhost",
     source |-> 0] @@ cfg

\* Proxy entries of SpecConfig: each of key, cert and hostname given or not,
\* source given or not, a fallback target or none, up to two named targets
\* with path '/' or a longer one, and aliases with and without a trailing
\* slash.
ConfigAliases == {<<>>, <<<<"/", "b">>>>, <<<<"/", "b", "/">>>>, <<<<"/">>>>}
ConfigTargets ==
    LET api == {[name |-> "api", path |-> p, port |-> 3000, aliases |-> a] :
                    p \in {PathA, <<"/">>}, a \in ConfigAliases}
        admin == {[name |-> "admin", path |-> p, port |-> 8080, aliases |-> a] :
                    p \in {<<"/", "a", "b">>, <<"/">>}, a \in {<<>>, <<<<"/", "b">>>>}}
    IN  {<<>>} \cup {<<x>> : x \in api} \cup {<<x, y>> : x \in api, y \in admin}
ConfigEntries ==
    [name : {"app"}, key : {"", "key.pem"}, cert : {"", "cert.pem"},
     hostname : {"", "localhost"}, source : {0, 5174}, target : {0, 5173},
     targets : ConfigTargets, maxRetryMs : {0, 100}, retryIntervalMs : {0}]

\* A second entry of the config file: one that constructs, and one without
\* a hostname.
SecondEntries ==
    { [name |-> "other", key |-> "key.pem", cert |-> "cert.pem", hostname |-> h,
       source |-> 0, target |-> 9000, targets |-> <<>>, maxRetryMs |-> 0,
       retryIntervalMs |-> 0] : h \in {"", "localhost"} }

\* Config files of one entry and of two.
ConfigFiles ==
    {<<e>> : e \in ConfigEntries} \cup {<<e, f>> : e \in ConfigEntries, f \in SecondEntries}

----------------------------------------------------------------------------
(* The proxy instance as a state machine *)

\* The instance as constructed from proxy entry cfg (lines 141-235).
Constructed(cfg) ==
    /\ routes = BuildRoutes(cfg)
    /\ maxRetryMs = NewInstance(Entry(cfg), NoDefaults).maxRetryMs
    /\ retryIntervalMs = NewInstance(Entry(cfg), NoDefaults).retryIntervalMs
    /\ now = 0
    /\ activeHealthCheck = [r \in 1..Len(routes) |-> 0]
    /\ probes = <<>>
    /\ reqs = <<>>
    /\ cur = NoDecision
    /\ proc = Startup(Starting(<<Entry(cfg)>>, NoDefaults))

Init ==
    /\ \E cfg \in Configs : Constructed(cfg)
    /\ bound = [reqs |-> MaxReq, ticks |-> MaxTicks]

InitProbe ==
    /\ \E cfg \in ProbeConfigs : Constructed(cfg)
    /\ bound = [reqs |-> MaxProbeReq, ticks |-> MaxProbeTicks]

InitRoute ==
    /\ \E cfg \in RouteConfigs : Constructed(cfg)
    /\ bound = [reqs |-> 0, ticks |-> 0]

\* An HTTPS request arrives.
HttpRequest(url) ==
    /\ Len(reqs) < bound.reqs
    /\ LET h == HttpHandler(url, reqs, probes, activeHealthCheck, now)
       IN  Turn(h.reqs, h.probes, h.active)
    /\ UNCHANGED <<routes, maxRetryMs, retryIntervalMs, now, cur, proc, bound>>

\* A WebSocket upgrade arrives.
Upgrade(url, isDevTooling) ==
    /\ Len(reqs) < bound.reqs
    /\ LET h == UpgradeHandler(url, isDevTooling, reqs, probes, activeHealthCheck, now)
       IN  Turn(h.reqs, h.probes, h.active)
    /\ UNCHANGED <<routes, maxRetryMs, retryIntervalMs, now, cur, proc, bound>>

\* The probe socket of run p connects.
SocketConnect(p) ==
    /\ probes[p].pc = "connecting"
    /\ Turn(reqs, [probes EXCEPT ![p] = OnConnect(@, now)], activeHealthCheck)
    /\ UNCHANGED <<routes, maxRetryMs, retryIntervalMs, now, cur, proc, bound>>

\* The probe socket of run p fails with a socket error.
SocketError(p, code) ==
    /\ probes[p].pc = "connecting"
    /\ Turn(reqs, [probes EXCEPT ![p] = OnReject(@, now, code)], activeHealthCheck)
    /\ UNCHANGED <<routes, maxRetryMs, retryIntervalMs, now, cur, proc, bound>>

\* The probe socket of run p has been idle for its timeout.
SocketTimeout(p) ==
    /\ probes[p].pc = "connecting"
    /\ now - probes[p].at >= timeout
    /\ Turn(reqs, [probes EXCEPT ![p] = OnReject(@, now, "timeout")], activeHealthCheck)
    /\ UNCHANGED <<routes, maxRetryMs, retryIntervalMs, now, cur, proc, bound>>

\* The retry timer of run p fires, no earlier than it is due.
TimerFire(p) ==
    /\ probes[p].pc = "waiting"
    /\ now - probes[p].at >= retryIntervalMs
    /\ Turn(reqs, [probes EXCEPT ![p] = OnTimer(@, now)], activeHealthCheck)
    /\ UNCHANGED <<routes, maxRetryMs, retryIntervalMs, now, cur, proc, bound>>

\* Time passes while a probe sequence is outstanding (nothing else reads the
\* clock).
Tick ==
    /\ \E p \in DOMAIN probes : probes[p].pc # "done"
    /\ \E d \in ClockSteps :
        /\ now + d <= bound.ticks * d
        /\ now' = now + d
    /\ UNCHANGED <<routes, maxRetryMs, retryIntervalMs, activeHealthCheck, probes, reqs, cur, proc, bound>>

Next ==
    \/ \E url \in Urls : HttpRequest(url)
    \/ \E url \in Urls, isDevTooling \in BOOLEAN : Upgrade(url, isDevTooling)
    \/ \E p \in DOMAIN probes : SocketConnect(p)
    \/ \E p \in DOMAIN probes, code \in ErrorCodes : SocketError(p, code)
    \/ \E p \in DOMAIN probes : SocketTimeout(p)
    \/ \E p \in DOMAIN probes : TimerFire(p)
    \/ Tick

Spec == Init /\ [][Next]_vars

\* One probe sequence followed to its end, under each retry configuration.
SpecProbe == InitProbe /\ [][Next]_vars

\* One request and its probe sequence followed to its end under the retry
\* configurations of SpecProbe and under the defaults.
InitAttempts ==
    /\ \E cfg \in AttemptConfigs : Constructed(cfg)
    /\ bound = [reqs |-> 1, ticks |-> MaxAttemptTicks]

SpecAttempts == InitAttempts /\ [][Next]_vars

\* A request or an upgrade that arrives while the clock of the behaviour has
\* room for the whole of a probe sequence.
InTime == \E d \in ClockSteps : now + maxRetryMs + timeout <= bound.ticks * d

NextLive ==
    \/ \E url \in Urls : InTime /\ HttpRequest(url)
    \/ \E url \in Urls, isDevTooling \in BOOLEAN : InTime /\ Upgrade(url, isDevTooling)
    \/ \E p \in DOMAIN probes : SocketConnect(p)
    \/ \E p \in DOMAIN probes, code \in ErrorCodes : SocketError(p, code)
    \/ \E p \in DOMAIN probes : SocketTimeout(p)
    \/ \E p \in DOMAIN probes : TimerFire(p)
    \/ Tick

\* Time passes, a retry timer that is due fires, and a socket that has been
\* idle for its timeout reports it.
SpecProbeLive ==
    /\ InitProbe /\ [][NextLive]_vars
    /\ WF_vars(Tick)
    /\ WF_vars(\E p \in DOMAIN probes : TimerFire(p))
    /\ WF_vars(\E p \in DOMAIN probes : SocketTimeout(p))

\* Concurrent requests and upgrades for the two routes of one instance: a
\* named target and the fallback target, without aliases.
PerRouteConfigs ==
    { [targets |-> <<[name |-> "api", path |-> PathA, port |-> 3000, aliases |-> <<>>]>>,
       target |-> 5173, maxRetryMs |-> 100, retryIntervalMs |-> 50] }

InitPerRoute ==
    /\ \E cfg \in PerRouteConfigs : Constructed(cfg)
    /\ bound = [reqs |-> MaxReq, ticks |-> MaxTicks]

\* A backend that refuses every probe at once: the socket error is
\* ECONNREFUSED and no time passes between socket.connect and the error.
SocketRefused(p) ==
    /\ now = probes[p].at
    /\ SocketError(p, "ECONNREFUSED")

TickRefusing ==
    /\ \A p \in DOMAIN probes : probes[p].pc # "connecting"
    /\ Tick

\* Backends that connect or refuse at once.
NextPerRoute ==
    \/ \E url \in Urls : HttpRequest(url)
    \/ \E url \in Urls : Upgrade(url, FALSE)
    \/ \E p \in DOMAIN probes : SocketConnect(p)
    \/ \E p \in DOMAIN probes : SocketRefused(p)
    \/ \E p \in DOMAIN probes : TimerFire(p)
    \/ TickRefusing

SpecPerRoute == InitPerRoute /\ [][NextPerRoute]_vars

NextRefusing ==
    \/ \E url \in Urls : HttpRequest(url)
    \/ \E url \in Urls, isDevTooling \in BOOLEAN : Upgrade(url, isDevTooling)
    \/ \E p \in DOMAIN probes : SocketRefused(p)
    \/ \E p \in DOMAIN probes : TimerFire(p)
    \/ TickRefusing

SpecRefusing == InitProbe /\ [][NextRefusing]_vars

\* No exception has left a handler: the process has not exited on an
\* unhandled rejection (lines 560-563).
Running == \A q \in DOMAIN reqs : ~reqs[q].escaped

\* An HTTPS request with headers hdrs arrives; handling it raises an
\* exception at fault.
HttpRelayRequest(url, fault, hdrs) ==
    /\ Len(reqs) < bound.reqs
    /\ Running
    /\ LET h == HttpTry(url, fault, hdrs, reqs, probes, activeHealthCheck, now)
       IN  Turn(h.reqs, h.probes, h.active)
    /\ UNCHANGED <<routes, maxRetryMs, retryIntervalMs, now, cur, proc, bound>>

\* A WebSocket upgrade arrives; handling it raises an exception at fault.
UpgradeRelay(url, fault) ==
    /\ Len(reqs) < bound.reqs
    /\ Running
    /\ LET h == UpgradeTry(url, fault, reqs, probes, activeHealthCheck, now)
       IN  Turn(h.reqs, h.probes, h.active)
    /\ UNCHANGED <<routes, maxRetryMs, retryIntervalMs, now, cur, proc, bound>>

\* The proxy of the route sends request q on to the backend.
ProxyReq(q) ==
    /\ reqs[q].kind = "http" /\ reqs[q].pc = "forwarding"
    /\ reqs' = [reqs EXCEPT ![q] = OnProxyReq(@)]
    /\ UNCHANGED <<routes, maxRetryMs, retryIntervalMs, now, activeHealthCheck, probes, cur, proc, bound>>

\* The backend answers request q with headers h.
ProxyRes(q, h) ==
    /\ reqs[q].kind = "http" /\ reqs[q].pc = "relaying"
    /\ reqs' = [reqs EXCEPT ![q] = OnProxyRes(@, h)]
    /\ UNCHANGED <<routes, maxRetryMs, retryIntervalMs, now, activeHealthCheck, probes, cur, proc, bound>>

\* The response to request q has been passed on to its end.
ProxyEnd(q) ==
    /\ reqs[q].pc = "responding"
    /\ reqs' = [reqs EXCEPT ![q].pc = "done"]
    /\ UNCHANGED <<routes, maxRetryMs, retryIntervalMs, now, activeHealthCheck, probes, cur, proc, bound>>

\* The proxy of the route reports a transport error for request or upgrade q.
ProxyError(q) ==
    /\ reqs[q].pc \in {"forwarding", "relaying", "responding", "failed"}
    /\ reqs[q].errors < MaxProxyErrors
    /\ reqs' = [reqs EXCEPT ![q] = OnProxyError(@)]
    /\ UNCHANGED <<routes, maxRetryMs, retryIntervalMs, now, activeHealthCheck, probes, cur, proc, bound>>

InitRelay ==
    /\ \E cfg \in RelayConfigs : Constructed(cfg)
    /\ bound = [reqs |-> MaxRelayReq, ticks |-> MaxRelayTicks]

\* Requests for a route and for its alias and upgrades for the route, the
\* handling of which may raise; backends that connect or refuse at once; and
\* the relay of what was forwarded.
NextRelay ==
    \/ \E url \in Urls, fault \in HttpFaults : HttpRelayRequest(url, fault, NoHeaders)
    \/ \E fault \in UpgradeFaults : UpgradeRelay(PathA, fault)
    \/ \E p \in DOMAIN probes : SocketConnect(p)
    \/ \E p \in DOMAIN probes : SocketRefused(p)
    \/ \E p \in DOMAIN probes : TimerFire(p)
    \/ TickRefusing
    \/ \E q \in DOMAIN reqs : ProxyReq(q)
    \/ \E q \in DOMAIN reqs : ProxyRes(q, NoResHeaders)
    \/ \E q \in DOMAIN reqs : ProxyEnd(q)
    \/ \E q \in DOMAIN reqs : ProxyError(q)

SpecRelay == InitRelay /\ [][NextRelay]_vars

\* One HTTPS request from its arrival to the end of its relay, raising at
\* each place, also once the proxy has emitted 'error' for it.
OutcomeFaults == HttpFaults \cup {"error-forward"}

InitOutcome ==
    /\ \E cfg \in Configs : Constructed(cfg)
    /\ bound = [reqs |-> MaxOutcomeReq, ticks |-> MaxRelayTicks]

\* The proxy reports a transport error for request q after its proxy.web
\* raised and the catch block of the handler ran.
ProxyErrorLate(q) ==
    /\ reqs[q].pc = "done" /\ reqs[q].caught /\ reqs[q].web > 0
    /\ reqs[q].errors < MaxProxyErrors
    /\ reqs' = [reqs EXCEPT ![q] = OnProxyError(@)]
    /\ UNCHANGED <<routes, maxRetryMs, retryIntervalMs, now, activeHealthCheck, probes, cur, proc, bound>>

NextOutcome ==
    \/ \E url \in Urls \cup {<<"/", "b">>}, fault \in OutcomeFaults :
            HttpRelayRequest(url, fault, NoHeaders)
    \/ \E p \in DOMAIN probes : SocketConnect(p)
    \/ \E p \in DOMAIN probes : SocketRefused(p)
    \/ \E p \in DOMAIN probes : TimerFire(p)
    \/ TickRefusing
    \/ \E q \in DOMAIN reqs : ProxyReq(q)
    \/ \E q \in DOMAIN reqs : ProxyRes(q, NoResHeaders)
    \/ \E q \in DOMAIN reqs : ProxyEnd(q)
    \/ \E q \in DOMAIN reqs : ProxyError(q)
    \/ \E q \in DOMAIN reqs : ProxyErrorLate(q)

SpecOutcome == InitOutcome /\ [][NextOutcome]_vars

\* One relayed exchange under every combination of header values.
InitHeaders ==
    /\ \E cfg \in Configs : Constructed(cfg)
    /\ bound = [reqs |-> 1, ticks |-> 0]

NextHeaders ==
    \/ \E hdrs \in RequestHeaders : HttpRelayRequest(PathA, "none", hdrs)
    \/ \E p \in DOMAIN probes : SocketConnect(p)
    \/ \E q \in DOMAIN reqs : ProxyReq(q)
    \/ \E q \in DOMAIN reqs, h \in ResponseHeaders : ProxyRes(q, h)
    \/ \E q \in DOMAIN reqs : ProxyEnd(q)

SpecHeaders == InitHeaders /\ [][NextHeaders]_vars

\* One request or one upgrade for one URL, over every route table: the
\* handler runs to its end or to its await of the health gate, and its
\* routing decision is kept in cur.  The backend, when probed, connects.
RouteHttp(url) ==
    /\ cur = NoDecision
    /\ cur' = [url |-> url, kind |-> "http"] @@ HttpDecision(routes, url)
    /\ LET h == HttpHandler(url, reqs, probes, activeHealthCheck, now)
       IN  Turn(h.reqs, h.probes, h.active)
    /\ UNCHANGED <<routes, maxRetryMs, retryIntervalMs, now, proc, bound>>

RouteUpgrade(url) ==
    /\ cur = NoDecision
    /\ cur' = [url |-> url, kind |-> "ws"] @@ UpgradeDecision(routes, url)
    /\ LET h == UpgradeHandler(url, FALSE, reqs, probes, activeHealthCheck, now)
       IN  Turn(h.reqs, h.probes, h.active)
    /\ UNCHANGED <<routes, maxRetryMs, retryIntervalMs, now, proc, bound>>

NextRoute ==
    \/ \E url \in AllUrls : RouteHttp(url)
    \/ \E url \in AllUrls : RouteUpgrade(url)
    \/ \E p \in DOMAIN probes : SocketConnect(p)

SpecRoute == InitRoute /\ [][NextRoute]_vars

\* Proxy entries of SpecRedirect: a named target whose alias is its own
\* path, its path without the trailing slash, or another path; an optional
\* second named target, with or without an alias; an optional fallback.
RedirectConfigs ==
    LET api == {[name |-> "api", path |-> p, port |-> 3000, aliases |-> <<a>>] :
                    p \in {<<"/", "a", "/">>, <<"/", "a">>, <<"/", "b">>},
                    a \in {<<"/", "a">>, <<"/", "b">>}}
        admin == {[name |-> "admin", path |-> p, port |-> 8080, aliases |-> a] :
                    p \in {<<"/", "b">>, <<"/", "a", "b">>},
                    a \in {<<>>, <<<<"/", "a">>>>}}
    IN  [targets : {<<x>> : x \in api} \cup {<<x, y>> : x \in api, y \in admin},
         target : {0, 5173}, maxRetryMs : {100}, retryIntervalMs : {50}]

InitRedirect ==
    /\ \E cfg \in RedirectConfigs : Constructed(cfg)
    /\ bound = [reqs |-> MaxHops + 1, ticks |-> 0]

\* The client that was answered 301 requests the Location it was given.
FollowRedirect ==
    /\ cur.outcome = "redirect"
    /\ Len(reqs) < bound.reqs
    /\ cur' = [url |-> cur.location, kind |-> "http"] @@ HttpDecision(routes, cur.location)
    /\ LET h == HttpHandler(cur.location, reqs, probes, activeHealthCheck, now)
       IN  Turn(h.reqs, h.probes, h.active)
    /\ UNCHANGED <<routes, maxRetryMs, retryIntervalMs, now, proc, bound>>

\* One HTTPS request for one URL over every route table of RedirectConfigs,
\* and the requests of a client that follows the redirects.
NextRedirect ==
    \/ \E url \in AllUrls : RouteHttp(url)
    \/ FollowRedirect
    \/ \E p \in DOMAIN probes : SocketConnect(p)

SpecRedirect == InitRedirect /\ [][NextRedirect]_vars

\* The process from its start to its exit, over every config file.
InitConfig ==
    /\ \E config \in ConfigFiles, defaults \in DefaultsElements :
            proc = Starting(config, defaults)
    /\ routes = <<>>
    /\ maxRetryMs = 0
    /\ retryIntervalMs = 0
    /\ now = 0
    /\ activeHealthCheck = <<>>
    /\ probes = <<>>
    /\ reqs = <<>>
    /\ cur = NoDecision
    /\ bound = [reqs |-> 0, ticks |-> 0]

\* The module runs: the loop over the entries of the config file, and the
\* registration of the signal and exception listeners (lines 126-564).
Start ==
    /\ proc.state = "starting"
    /\ proc' = Startup(proc)
    /\ UNCHANGED <<routes, maxRetryMs, retryIntervalMs, now, activeHealthCheck, probes, reqs, cur, bound>>

\* SIGINT or SIGTERM is delivered (lines 542-549): process.exit(0).
Signal(sig) ==
    /\ proc.state = "running"
    /\ proc' = Exit(proc, sig, 0)
    /\ UNCHANGED <<routes, maxRetryMs, retryIntervalMs, now, activeHealthCheck, probes, reqs, cur, bound>>

\* An exception that nothing catches, or a rejection that nothing handles,
\* reaches the process (lines 556-564): process.exit(1).
Uncaught(event) ==
    /\ proc.state = "running"
    /\ proc' = Exit(proc, event, 1)
    /\ UNCHANGED <<routes, maxRetryMs, retryIntervalMs, now, activeHealthCheck, probes, reqs, cur, bound>>

NextConfig ==
    \/ Start
    \/ \E sig \in {"SIGINT", "SIGTERM"} : Signal(sig)
    \/ \E event \in {"uncaughtException", "unhandledRejection"} : Uncaught(event)

SpecConfig == InitConfig /\ [][NextConfig]_vars

----------------------------------------------------------------------------
(* The health gate under concurrent requests (Spec) *)

\* The probe sequences of route r that have not returned.
Outstanding(r) == {p \in DOMAIN probes : probes[p].route = r /\ probes[p].pc # "done"}

\* C1: in every reachable state each route has at most one outstanding probe
\* sequence, however many requests and upgrades wait on it.
C1_OneProbePerRoute ==
    \A r \in DOMAIN activeHealthCheck : Cardinality(Outstanding(r)) <= 1

\* An HTTP request and an upgrade wait on the one outstanding sequence of a route.
C1_Witness ==
    \E p \in DOMAIN probes, q1, q2 \in DOMAIN reqs :
        /\ Outstanding(probes[p].route) = {p}
        /\ reqs[q1].kind = "http" /\ reqs[q1].pc = "await" /\ reqs[q1].awaiting = p
        /\ reqs[q2].kind = "ws" /\ reqs[q2].pc = "await" /\ reqs[q2].awaiting = p

\* C2: a caller that reaches the gate of a route while a probe sequence of
\* that route is pending has, in every state, the verdict of the caller that
\* started the sequence: none while it is pending, and the same boolean once
\* it has resolved.
C2_SameOutcome ==
    \A q1, q2 \in DOMAIN reqs :
        (reqs[q1].started /\ reqs[q1].awaiting \in reqs[q2].pendingAtCall)
            => reqs[q1].verdict = reqs[q2].verdict

\* An HTTP request started a sequence, an upgrade joined it, and both were
\* told the backend is unavailable.
C2_Witness ==
    \E q1, q2 \in DOMAIN reqs :
        /\ reqs[q1].kind = "http" /\ reqs[q1].started
        /\ reqs[q2].kind = "ws" /\ reqs[q1].awaiting \in reqs[q2].pendingAtCall
        /\ reqs[q1].verdict = "false" /\ reqs[q2].verdict = "false"

\* C3: a resolved probe sequence is never left in activeHealthCheck, and every
\* call of the gate returns a sequence that was pending when the call
\* returned: one already pending for the route, or else one the call started.
C3_FreshAfterResolve ==
    /\ \A r \in DOMAIN activeHealthCheck :
            activeHealthCheck[r] # 0 => probes[activeHealthCheck[r]].pc # "done"
    /\ \A q \in DOMAIN reqs :
            reqs[q].awaiting # 0 =>
                /\ ~reqs[q].stale
                /\ reqs[q].pendingAtCall = {} => reqs[q].started

\* A request was told "available"; a later request for the same route started
\* a sequence of its own and was told "unavailable".
C3_Witness ==
    \E q1, q2 \in DOMAIN reqs :
        /\ q1 < q2 /\ reqs[q1].route = reqs[q2].route
        /\ reqs[q1].verdict = "true"
        /\ reqs[q2].started /\ reqs[q2].awaiting # reqs[q1].awaiting
        /\ reqs[q2].verdict = "false"

\* C4: an HTTP request is handed to proxy.web only if the gate of its matched
\* route resolved true; when the gate resolved false the request is answered
\* 502 and proxy.web is not called for it.
C4_WebOnlyAfterAvailable ==
    \A q \in DOMAIN reqs :
        reqs[q].kind = "http" =>
            /\ reqs[q].web > 0 =>
                /\ reqs[q].awaiting # 0
                /\ probes[reqs[q].awaiting].result = "true"
                /\ probes[reqs[q].awaiting].route = FindRoute(routes, reqs[q].url)
            /\ (reqs[q].awaiting # 0 /\ probes[reqs[q].awaiting].result = "false") =>
                /\ reqs[q].status = 502
                /\ reqs[q].web = 0

\* One HTTP request was forwarded and another was answered 502.
C4_Witness ==
    \E q1, q2 \in DOMAIN reqs :
        /\ reqs[q1].kind = "http" /\ reqs[q1].web = 1 /\ reqs[q1].status = 0
        /\ reqs[q2].kind = "http" /\ reqs[q2].web = 0 /\ reqs[q2].status = 502

----------------------------------------------------------------------------
(* One probe sequence (SpecProbe, SpecRefusing) *)

\* The time run p took to return.
Elapsed(p) == probes[p].resolvedAt - probes[p].startTime

\* C5: a probe sequence resolves false only when at least maxRetryMs has
\* elapsed since it started.
C5_FalseNotBeforeBudget ==
    \A p \in DOMAIN probes : probes[p].result = "false" => Elapsed(p) >= maxRetryMs

\* A sequence resolved false after two failed attempts, exactly maxRetryMs
\* after it started.
C5_Witness ==
    \E p \in DOMAIN probes :
        probes[p].result = "false" /\ probes[p].retryCount = 2 /\ Elapsed(p) = maxRetryMs

\* C6 as claimed: against a backend that refuses every probe at once, a probe
\* sequence resolves false no later than maxRetryMs + retryIntervalMs after it
\* started.
C6_FalseByBudgetPlusInterval ==
    \A p \in DOMAIN probes :
        probes[p].result = "false" => Elapsed(p) <= maxRetryMs + retryIntervalMs

\* C6 as amended: against a backend that refuses every probe at once, a probe
\* sequence resolves false no later than maxRetryMs + retryIntervalMs after it
\* started, provided the retry timer of its last wait fires when it is due.
C6_FalseByBudgetPlusIntervalIfPunctual ==
    [][\A p \in DOMAIN probes :
          ( /\ probes[p].pc # "done"
            /\ probes'[p].result = "false"
            /\ probes[p].pc = "waiting" => now = probes[p].at + retryIntervalMs )
          => probes'[p].resolvedAt - probes[p].startTime <= maxRetryMs + retryIntervalMs]_vars

\* A sequence of at least two refused attempts resolved false after
\* maxRetryMs and within one more retryIntervalMs.
C6_Witness ==
    \E p \in DOMAIN probes :
        /\ probes[p].result = "false" /\ probes[p].retryCount >= 2
        /\ Elapsed(p) >= maxRetryMs
        /\ Elapsed(p) <= maxRetryMs + retryIntervalMs

\* C7: when the first connection attempt of a sequence connects, the
\* sequence has returned true with one attempt made, no retry counted and no
\* delay taken, and every handler that awaited it was told "available".
C7_FirstConnect ==
    \A p \in DOMAIN probes :
        (probes[p].attempts = 1 /\ probes[p].exit = "connect") =>
            /\ probes[p].pc = "done" /\ probes[p].result = "true"
            /\ probes[p].retryCount = 0 /\ probes[p].delays = 0
            /\ \A q \in DOMAIN reqs : reqs[q].awaiting = p => reqs[q].verdict = "true"

\* The first attempt connected, some time after the request arrived.
C7_Witness ==
    \E p \in DOMAIN probes, q \in DOMAIN reqs :
        /\ probes[p].attempts = 1 /\ probes[p].exit = "connect"
        /\ Elapsed(p) > 0
        /\ reqs[q].awaiting = p /\ reqs[q].pc = "forwarding"

\* C8 as claimed: every wait taken after a failed attempt is followed by
\* another attempt, so a sequence that is not waiting has made one attempt
\* more than it has taken waits.
C8_WaitThenAttempt ==
    \A p \in DOMAIN probes :
        probes[p].pc # "waiting" => probes[p].attempts = probes[p].delays + 1

\* C8 as amended: a failed attempt of any kind, with the elapsed time under
\* maxRetryMs, starts a wait; the wait lasts at least retryIntervalMs and is
\* followed by another attempt if the elapsed time is then still under
\* maxRetryMs, and by the result false otherwise; a sequence resolves true in
\* the step in which an attempt connects, and only then.
C8_RetryWhileBudget ==
    [][\A p \in DOMAIN probes :
          LET old == probes[p]
              new == probes'[p]
              elapsed == now - old.startTime
          IN  /\ (old.pc = "connecting" /\ new.retryCount = old.retryCount + 1) =>
                    IF elapsed < maxRetryMs
                    THEN new.pc = "waiting" /\ new.at = now /\ new.delays = old.delays + 1
                    ELSE new.pc = "done" /\ new.result = "false"
              /\ (old.pc = "waiting" /\ new.pc # "waiting") =>
                    /\ now - old.at >= retryIntervalMs
                    /\ IF elapsed < maxRetryMs
                       THEN new.pc = "connecting" /\ new.attempts = old.attempts + 1
                       ELSE new.pc = "done" /\ new.result = "false"
              /\ (old.pc = "connecting" /\ new.exit = "connect") =>
                    new.pc = "done" /\ new.result = "true"
              /\ (old.pc # "done" /\ new.result = "true") =>
                    old.pc = "connecting" /\ new.exit = "connect"
              /\ (old.pc = "connecting" /\ new.pc = "connecting") => new = old]_vars

\* A sequence whose first attempt timed out waited, tried again and connected.
C8_Witness ==
    \E p \in DOMAIN probes :
        /\ probes[p].retryCount = 1 /\ probes[p].attempts = 2 /\ probes[p].delays = 1
        /\ probes[p].result = "true"
        /\ Elapsed(p) >= timeout + retryIntervalMs

\* C9 as claimed: a sequence waits to retry only after a connection attempt
\* that failed with ECONNREFUSED.
C9_RetryOnlyRefused ==
    \A p \in DOMAIN probes : probes[p].pc = "waiting" => probes[p].err = "ECONNREFUSED"

----------------------------------------------------------------------------
(* Route matching (SpecRoute) *)

\* url has path p followed by the end of the string, by '/' or by '?'.
Structural(url, p) ==
    /\ Len(url) >= Len(p)
    /\ \A k \in 1..Len(p) : url[k] = p[k]
    /\ Len(url) = Len(p) \/ url[Len(p) + 1] \in {"/", "?"}

\* C10: a route whose path p is not '/' matches the URL exactly when the URL
\* is p followed by nothing, by '/' or by '?'; the route the handler selects
\* is never one whose path is a mere string prefix of the URL, and when no
\* route other than '/' matches in that way the handler selects a '/' route.
C10_StructuralMatch ==
    LET u == cur.url
        others == {i \in 1..Len(routes) : routes[i].path # <<"/">>}
    IN  cur.kind # "none" =>
            /\ \A i \in others : RouteMatches(routes[i], u) <=> Structural(u, routes[i].path)
            /\ (cur.outcome = "route" /\ cur.route \in others)
                    => Structural(u, routes[cur.route].path)
            /\ ( /\ cur.outcome # "redirect"
                 /\ \E i \in 1..Len(routes) : routes[i].path = <<"/">>
                 /\ \A i \in others : ~Structural(u, routes[i].path) )
                    => cur.outcome = "route" /\ routes[cur.route].path = <<"/">>

\* '/ab' against the table ['/a', '/']: /a is a mere prefix, and '/' is selected.
C10_Witness ==
    /\ cur.url = <<"/", "a", "b">>
    /\ Len(routes) = 2
    /\ routes[1].path = <<"/", "a">> /\ routes[2].path = <<"/">>
    /\ cur.outcome = "route" /\ cur.route = 2

\* The routes of the table that match url: '/' matches everything, any other
\* path structurally.
Matching(url) ==
    {i \in 1..Len(routes) : routes[i].path = <<"/">> \/ Structural(url, routes[i].path)}

\* C11: the route selected for a URL is one of the longest paths among the
\* routes that match it, no route is selected only when none matches, a '/'
\* route stands after every other route of the table, and it is selected
\* only when no other route matches the URL.
C11_LongestMatch ==
    LET u == cur.url
    IN  cur.kind # "none" =>
            /\ \A i, j \in 1..Len(routes) :
                    (routes[i].path = <<"/">> /\ routes[j].path # <<"/">>) => j < i
            /\ cur.outcome = "notfound" <=> (AliasHit(routes, u) = <<0, 0>> \/ cur.kind = "ws") /\ Matching(u) = {}
            /\ cur.outcome = "route" =>
                    /\ cur.route \in Matching(u)
                    /\ \A i \in Matching(u) :
                            Len(routes[cur.route].path) >= Len(routes[i].path)
                    /\ routes[cur.route].path = <<"/">> =>
                            \A i \in Matching(u) : routes[i].path = <<"/">>

\* '/a/' against targets configured as /a, then /a/, then the fallback: all
\* three match, and /a/, sorted first, is selected.
C11_Witness ==
    /\ cur.url = <<"/", "a", "/">>
    /\ Len(routes) = 3
    /\ routes[1].name = "admin" /\ routes[1].path = <<"/", "a", "/">>
    /\ routes[2].name = "api" /\ routes[2].path = <<"/", "a">>
    /\ routes[3].path = <<"/">>
    /\ Matching(cur.url) = {1, 2, 3}
    /\ cur.outcome = "route" /\ cur.route = 1

\* url matches some alias of some route of the table.
MatchesAnAlias(url) ==
    \E i \in 1..Len(routes) : \E k \in 1..Len(routes[i].aliases) :
        Structural(url, routes[i].aliases[k])

\* C12: an HTTP request is answered 404 exactly when its URL matches no alias
\* and no route; then the table has no '/' route, and in particular not the
\* "default" route that a single target becomes.
C12_NotFoundIffNoMatch ==
    \A q \in DOMAIN reqs :
        reqs[q].kind = "http" =>
            /\ reqs[q].status = 404 <=>
                    (~MatchesAnAlias(reqs[q].url) /\ Matching(reqs[q].url) = {})
            /\ reqs[q].status = 404 =>
                    \A i \in 1..Len(routes) :
                        routes[i].path # <<"/">> /\ routes[i].name # "default"

\* '/b' against the one route /a, without aliases or fallback, is answered 404.
C12_Witness ==
    /\ Len(routes) = 1
    /\ routes[1].path = <<"/", "a">> /\ routes[1].aliases = <<>>
    /\ \E q \in DOMAIN reqs :
            /\ reqs[q].kind = "http" /\ reqs[q].url = <<"/", "b">>
            /\ reqs[q].status = 404 /\ reqs[q].pc = "done" /\ reqs[q].web = 0

\* C13: an HTTP request whose URL matches an alias is answered 301 in the
\* turn it arrives, whether or not the URL also matches a route: it is never
\* at the health gate of a route, starts no probe sequence, and proxy.web is
\* never called for it.
C13_AliasBeforeRoute ==
    \A q \in DOMAIN reqs :
        (reqs[q].kind = "http" /\ MatchesAnAlias(reqs[q].url)) =>
            /\ reqs[q].status = 301 /\ reqs[q].pc = "done"
            /\ reqs[q].route = 0 /\ reqs[q].awaiting = 0 /\ ~reqs[q].started
            /\ reqs[q].web = 0

\* '/b' is an alias of the route /a and the path of another route: the
\* request is redirected, and no probe sequence was started.
C13_Witness ==
    \E q \in DOMAIN reqs, i, j \in 1..Len(routes) :
        /\ reqs[q].kind = "http" /\ reqs[q].url = <<"/", "b">>
        /\ routes[i].path = <<"/", "a">> /\ routes[i].aliases = <<<<"/", "b">>>>
        /\ routes[j].path = <<"/", "b">> /\ routes[j].aliases = <<>>
        /\ reqs[q].status = 301 /\ reqs[q].web = 0
        /\ probes = <<>>

\* The first alias, in table order and then in alias order, that url matches.
FirstAlias(url) ==
    LET hits == {ra \in (1..Len(routes)) \X (1..2) :
                    /\ ra[2] <= Len(routes[ra[1]].aliases)
                    /\ Structural(url, routes[ra[1]].aliases[ra[2]])}
    IN  CHOOSE ra \in hits : \A rb \in hits : ra[1] < rb[1] \/ (ra[1] = rb[1] /\ ra[2] <= rb[2])

\* Path p without its trailing slash, unless p is '/'.
Stripped(p) ==
    IF Len(p) > 1 /\ p[Len(p)] = "/" THEN [k \in 1..(Len(p) - 1) |-> p[k]] ELSE p

C15_UpgradeAliasRedirect ==
    \A q \in DOMAIN reqs :
        (reqs[q].kind = "ws" /\ MatchesAnAlias(reqs[q].url)) =>
            /\ reqs[q].status = 301
            /\ reqs[q].route = 0 /\ reqs[q].awaiting = 0
            /\ reqs[q].ws = 0

----------------------------------------------------------------------------
(* WebSocket upgrades (Spec) *)

\* C16: an upgrade is handed to proxy.ws only if a route matched its URL and
\* the probe sequence it awaited at that route's gate resolved true; an
\* upgrade that no route matches has its socket ended with the 404 status
\* line, one whose awaited sequence resolved false with the 502 status line,
\* and proxy.ws is called for neither.  (status is the code of the status
\* line written to the socket.)
C16_WsOnlyAfterAvailable ==
    \A q \in DOMAIN reqs :
        reqs[q].kind = "ws" =>
            /\ reqs[q].ws > 0 =>
                /\ reqs[q].route \in Matching(reqs[q].url)
                /\ reqs[q].awaiting # 0
                /\ probes[reqs[q].awaiting].route = reqs[q].route
                /\ probes[reqs[q].awaiting].result = "true"
                /\ reqs[q].status = 0
            /\ Matching(reqs[q].url) = {} =>
                /\ reqs[q].status = 404 /\ reqs[q].pc = "done"
                /\ reqs[q].awaiting = 0 /\ reqs[q].ws = 0
            /\ (reqs[q].awaiting # 0 /\ probes[reqs[q].awaiting].result = "false") =>
                /\ reqs[q].status = 502 /\ reqs[q].pc = "done"
                /\ reqs[q].ws = 0

\* One upgrade was handed to proxy.ws, and a later one for the same route
\* had its socket ended with 502.
C16_Witness ==
    \E q1, q2 \in DOMAIN reqs :
        /\ reqs[q1].kind = "ws" /\ reqs[q1].ws = 1 /\ reqs[q1].status = 0
        /\ reqs[q2].kind = "ws" /\ reqs[q2].ws = 0 /\ reqs[q2].status = 502
        /\ reqs[q1].route = reqs[q2].route

----------------------------------------------------------------------------
(* Relay errors and exceptions (SpecRelay) *)

\* C17: when the proxy reports a transport error for a relayed HTTP request,
\* the listener writes a 502 response if the response headers had not been
\* sent, and otherwise leaves the response as it was; it writes at most one
\* 502 per request.  (For a relayed upgrade there is no response: the
\* listener writes nothing.)
C17_ErrorWrites502IffUnsent ==
    [][\A q \in DOMAIN reqs :
          reqs'[q].errors = reqs[q].errors + 1 =>
              /\ IF reqs[q].kind = "http" /\ ~reqs[q].headersSent
                 THEN /\ reqs'[q].status = 502
                      /\ reqs'[q].headersSent
                      /\ reqs'[q].wrote502 = reqs[q].wrote502 + 1
                 ELSE /\ reqs'[q].status = reqs[q].status
                      /\ reqs'[q].headersSent = reqs[q].headersSent
                      /\ reqs'[q].wrote502 = reqs[q].wrote502
              /\ reqs'[q].wrote502 <= 1
              /\ reqs'[q].delivered = reqs[q].delivered]_vars

\* The relay of one request failed before the backend answered, and 502 was
\* written; the relay of another failed after the backend's headers had been
\* passed on, and nothing was written.
C17_Witness ==
    \E q1, q2 \in DOMAIN reqs :
        /\ reqs[q1].kind = "http" /\ reqs[q1].errors = 1
        /\ reqs[q1].status = 502 /\ reqs[q1].wrote502 = 1
        /\ reqs[q2].kind = "http" /\ reqs[q2].errors = 1
        /\ reqs[q2].status = 200 /\ reqs[q2].wrote502 = 0 /\ reqs[q2].headersSent

\* The handling of request q has reached the place where it raises.
Raised(q) ==
    \/ reqs[q].fault = "early"
    \/ /\ reqs[q].fault = "end" /\ reqs[q].kind = "http"
       /\ reqs[q].status \in {301, 404} \/ reqs[q].verdict = "false"
    \/ reqs[q].fault = "forward" /\ reqs[q].web + reqs[q].ws > 0

\* C18: an exception raised while a request or an upgrade is handled reaches
\* the catch block of its handler and never leaves the handler, so the
\* process keeps running.  An HTTP request is then answered 500 when nothing
\* had been written, and keeps the response already begun otherwise; an
\* upgrade has its socket ended with the 500 status line.  The catch block
\* runs for no other request.
C18_ExceptionsCaught ==
    /\ Running
    /\ \A q \in DOMAIN reqs :
            /\ reqs[q].caught <=> Raised(q)
            /\ Raised(q) =>
                    /\ reqs[q].pc = "done" /\ reqs[q].errors = 0
                    /\ reqs[q].status =
                            IF reqs[q].kind = "http" /\ reqs[q].fault = "end"
                            THEN (IF reqs[q].awaiting # 0 THEN 502
                                  ELSE IF MatchesAnAlias(reqs[q].url) THEN 301 ELSE 404)
                            ELSE 500
            /\ ~Raised(q) => reqs[q].status # 500

\* proxy.web threw for one request, which was answered 500; a request that
\* arrived after that was relayed and answered by the backend.
C18_Witness ==
    \E q1, q2 \in DOMAIN reqs :
        /\ q1 < q2
        /\ reqs[q1].kind = "http" /\ reqs[q1].fault = "forward"
        /\ reqs[q1].caught /\ reqs[q1].status = 500 /\ reqs[q1].web = 1
        /\ reqs[q2].fault = "none" /\ reqs[q2].web = 1 /\ reqs[q2].status = 200
        /\ reqs[q2].started /\ reqs[q2].awaiting # reqs[q1].awaiting

----------------------------------------------------------------------------
(* Header rewrites (SpecHeaders) *)

\* v begins with the characters of pre.
HasPrefix(v, pre) ==
    /\ Len(v) >= Len(pre)
    /\ \A k \in 1..Len(pre) : v[k] = pre[k]

\* o is v with its leading scheme from replaced by to and the rest kept, or
\* v itself when v does not begin with from.
Rescheme(v, from, to, o) ==
    IF HasPrefix(v, from)
    THEN /\ Len(o) = Len(v) - Len(from) + Len(to)
         /\ HasPrefix(o, to)
         /\ \A k \in 1..(Len(v) - Len(from)) : o[Len(to) + k] = v[Len(from) + k]
    ELSE o = v

\* The proxy has sent request q on to the backend.
SentOn(q) == reqs[q].pc \in {"relaying", "responding"} \/ reqs[q].status = 200

C20_ResponseHeadersRewritten ==
    \A q \in DOMAIN reqs :
        reqs[q].status = 200 =>
            /\ Rescheme(reqs[q].backend.location, Http, Https, reqs[q].delivered.location)
            /\ Rescheme(reqs[q].backend.acao, Http, Https, reqs[q].delivered.acao)
            /\ HasPrefix(reqs[q].backend.location, Https) =>
                    reqs[q].delivered.location = reqs[q].backend.location
            /\ reqs[q].delivered.link = reqs[q].backend.link

\* location 'http://h' was delivered as 'https://h', access-control-allow-
\* origin 'https://h' as it was, and another header 'http://h' as it was.
C20_Witness ==
    \E q \in DOMAIN reqs :
        /\ reqs[q].status = 200
        /\ reqs[q].backend.location = Http \o Host
        /\ reqs[q].delivered.location = Https \o Host
        /\ reqs[q].backend.acao = Https \o Host
        /\ reqs[q].delivered.acao = Https \o Host
        /\ reqs[q].backend.link = Http \o Host
        /\ reqs[q].delivered.link = Http \o Host

----------------------------------------------------------------------------
(* Construction of the instances and exit of the process (SpecConfig) *)

\* The entries of the config file whose construction has been attempted:
\* the loop constructs them in order and stops at the first that throws.
Attempted ==
    IF proc.state = "starting" THEN {}
    ELSE {i \in DOMAIN proc.config : i <= Len(proc.insts) + 1}

\* The instance constructed for entry i, when there is one.
HasInstance(i) == i <= Len(proc.insts)

\* C21: an instance whose entry omits source listens on the entry's target
\* port plus 1000, also when the entry gives a targets map as well.
C21_DefaultSourceIsTargetPlus1000 ==
    \A i \in Attempted :
        (HasInstance(i) /\ proc.config[i].source = 0 /\ proc.config[i].target # 0)
            => proc.insts[i].source = proc.config[i].target + 1000

\* What entry e lacks, also in the defaults d.
Lacking(e, d) ==
    {k \in {"key", "cert", "hostname"} : e[k] = "" /\ d[k] = ""}
        \cup (IF e.target = 0 /\ e.targets = <<>> THEN {"target or targets"} ELSE {})

\* C22: an entry that lacks key, cert or hostname, also in the defaults, or
\* that has neither a target nor a targets entry, gets no instance: its
\* construction fails with an error that names the proxy and a field it
\* lacks.
C22_MissingFieldFails ==
    \A i \in Attempted :
        Lacking(proc.config[i], proc.defaults) # {}
            => /\ ~HasInstance(i)
               /\ \A j \in DOMAIN proc.insts : proc.insts[j].name # proc.config[i].name
               /\ proc.error.state = "failed"
               /\ proc.error.name = proc.config[i].name
               /\ proc.error.field \in Lacking(proc.config[i], proc.defaults)
               /\ ~proc.error.listening

C22_Witness ==
    /\ Len(proc.config) = 2 /\ Len(proc.insts) = 1
    /\ proc.error.name = "other" /\ proc.error.field = "hostname"
    /\ proc.insts[1].name = "app" /\ ~proc.insts[1].listening

\* Alias a ends with a slash and is not the alias '/'.
TrailingSlash(a) == Len(a) > 1 /\ a[Len(a)] = "/"

\* C23: an entry with an alias that ends with '/', other than the alias '/',
\* gets no instance, and every alias of every route of every instance is
\* '/' or does not end with '/'.
C23_NoTrailingSlashAlias ==
    /\ \A i \in Attempted :
          (\E t \in DOMAIN proc.config[i].targets :
              \E k \in DOMAIN proc.config[i].targets[t].aliases :
                  TrailingSlash(proc.config[i].targets[t].aliases[k]))
            => ~HasInstance(i)
    /\ \A i \in DOMAIN proc.insts : \A r \in DOMAIN proc.insts[i].routes :
          \A k \in DOMAIN proc.insts[i].routes[r].aliases :
              LET a == proc.insts[i].routes[r].aliases[k]
              IN  a = <<"/">> \/ a = <<>> \/ a[Len(a)] # "/"

C23_Witness ==
    /\ proc.state = "exited" /\ proc.error.field = "aliases"
    /\ proc.error.name = "app" /\ proc.insts = <<>>
    /\ Lacking(proc.config[1], proc.defaults) = {}

\* C24: in the route table of every instance at most one route has path '/'.
C24_OneRootRoute ==
    \A i \in DOMAIN proc.insts :
        Cardinality({r \in DOMAIN proc.insts[i].routes :
                        proc.insts[i].routes[r].path = <<"/">>}) <= 1

\* C25: in the route table of every instance the alias strings are pairwise
\* distinct across all routes.
C25_AliasesDistinct ==
    \A i \in DOMAIN proc.insts :
        \A r1, r2 \in DOMAIN proc.insts[i].routes :
            \A k1 \in DOMAIN proc.insts[i].routes[r1].aliases,
               k2 \in DOMAIN proc.insts[i].routes[r2].aliases :
                (<<r1, k1>> # <<r2, k2>>)
                    => proc.insts[i].routes[r1].aliases[k1]
                           # proc.insts[i].routes[r2].aliases[k2]

\* C29: after SIGINT or SIGTERM the process has exited with status 0, and
\* every instance has closed its HTTPS listener and the proxy of each of its
\* routes; after an uncaught exception or an unhandled rejection it has
\* exited with status 1.
C29_ExitClosesEverything ==
    /\ proc.cause \in {"SIGINT", "SIGTERM"}
          => /\ proc.state = "exited" /\ proc.exitCode = 0
             /\ Len(proc.insts) = Len(proc.config)
             /\ \A i \in DOMAIN proc.insts :
                    ~proc.insts[i].listening /\ proc.insts[i].proxies = {}
    /\ proc.cause \in {"uncaughtException", "unhandledRejection"}
          => proc.state = "exited" /\ proc.exitCode = 1
    /\ proc.state = "exited" => proc.cause # "none"

C29_Witness ==
    /\ proc.cause = "SIGTERM" /\ Len(proc.insts) = 2
    /\ Len(proc.insts[1].routes) = 3

----------------------------------------------------------------------------
(* Termination, outcome and length of a probe sequence *)

\* The request or upgrade q has passed the health gate: it was handed to
\* the proxy of its route, or it was answered 502.
PastGate(q) == reqs[q].web + reqs[q].ws > 0 \/ reqs[q].status = 502

\* C26: when timers and socket timeouts are fair, every probe sequence that
\* is outstanding returns, and every request or upgrade that waits at the
\* health gate is forwarded or gets its 502.
C26_ProbeTerminates ==
    (\E p \in DOMAIN probes : probes[p].pc # "done")
        ~> /\ \A p \in DOMAIN probes : probes[p].pc = "done"
           /\ \A q \in DOMAIN reqs : reqs[q].awaiting # 0 => PastGate(q)

C26_Witness ==
    \E q \in DOMAIN reqs :
        /\ reqs[q].status = 502
        /\ probes[reqs[q].awaiting].exit = "loop"
        /\ probes[reqs[q].awaiting].attempts >= 2

\* C27: a probe sequence never rejects, whatever its attempts fail with: it
\* resolves true or false, and a request that waited for a sequence that
\* resolved false has the 502 and never the 500.
C27_ProbeNeverRejects ==
    /\ \A p \in DOMAIN probes :
          /\ probes[p].result \in {"pending", "true", "false"}
          /\ probes[p].pc = "done" => probes[p].result \in {"true", "false"}
    /\ \A q \in DOMAIN reqs :
          /\ reqs[q].status # 500
          /\ (reqs[q].awaiting # 0 /\ probes[reqs[q].awaiting].pc = "done"
                /\ probes[reqs[q].awaiting].retryCount = probes[reqs[q].awaiting].attempts)
              => reqs[q].status = 502 /\ reqs[q].web + reqs[q].ws = 0

C27_Witness ==
    \E q \in DOMAIN reqs :
        /\ reqs[q].kind = "http" /\ reqs[q].status = 502
        /\ probes[reqs[q].awaiting].retryCount >= 3
        /\ probes[reqs[q].awaiting].exit = "catch"
        /\ now - probes[reqs[q].awaiting].at >= timeout

\* C28: a probe sequence makes at most ceil(maxRetryMs / retryIntervalMs)
\* connection attempts, 20 under the defaults, and at least one when
\* maxRetryMs is positive.
C28_AttemptsBounded ==
    \A p \in DOMAIN probes :
        /\ probes[p].attempts <= (maxRetryMs + retryIntervalMs - 1) \div retryIntervalMs
        /\ (maxRetryMs = 1000 /\ retryIntervalMs = 50) => probes[p].attempts <= 20
        /\ maxRetryMs > 0 => probes[p].attempts >= 1

C28_Witness ==
    \E p \in DOMAIN probes :
        /\ maxRetryMs = 1000 /\ retryIntervalMs = 50
        /\ probes[p].attempts = 20 /\ probes[p].result = "false"

----------------------------------------------------------------------------
(* The outcome of an HTTPS request (SpecOutcome) *)

\* C30: an HTTPS request whose handler has run to its end has one outcome:
\* the handler, its catch block and the 'error' listener together have
\* written at most one response head for it, proxy.web was called at most
\* once, one of the two has happened, a request answered 301, 404 or with
\* the 502 of the health gate was never handed to proxy.web, and for a
\* request given to proxy.web the handler and its catch block wrote nothing
\* unless proxy.web raised.
C30_OneOutcome ==
    \A q \in DOMAIN reqs :
        (reqs[q].kind = "http" /\ reqs[q].pc # "await")
            => /\ reqs[q].heads <= 1
               /\ reqs[q].web <= 1
               /\ reqs[q].heads + reqs[q].web >= 1
               /\ reqs[q].heads = 1 => reqs[q].status \in {301, 404, 500, 502}
               /\ (reqs[q].status \in {301, 404} \/ reqs[q].verdict = "false")
                      => reqs[q].web = 0 /\ reqs[q].heads = 1
               /\ (reqs[q].web = 1 /\ ~reqs[q].caught)
                      => reqs[q].heads = reqs[q].wrote502

\* proxy.web raised for a request and the catch block answered 500; the
\* proxy then reported a transport error for it, and nothing more was
\* written.
C30_Witness ==
    \E q \in DOMAIN reqs :
        /\ reqs[q].kind = "http" /\ reqs[q].fault = "forward"
        /\ reqs[q].caught /\ reqs[q].errors >= 1
        /\ reqs[q].status = 500 /\ reqs[q].heads = 1 /\ reqs[q].web = 1

----------------------------------------------------------------------------
(* What a request leaves alone (Spec, SpecPerRoute) *)

\* C31: the turn in which a request is answered 301, or a request or an
\* upgrade 404, starts no probe sequence, joins none, and leaves the probe
\* sequences, the activeHealthCheck of every route and every other request
\* as they were; the request is answered in that turn and awaits nothing.
C31_RedirectAndNotFoundProbeNothing ==
    [][\A q \in DOMAIN reqs' \ DOMAIN reqs :
          reqs'[q].status \in {301, 404}
              => /\ probes' = probes
                 /\ activeHealthCheck' = activeHealthCheck
                 /\ \A o \in DOMAIN reqs : reqs'[o] = reqs[o]
                 /\ reqs'[q].pc = "done" /\ reqs'[q].awaiting = 0
                 /\ ~reqs'[q].started /\ reqs'[q].web + reqs'[q].ws = 0]_vars

\* A request was answered 301, or 404, while an earlier request was waiting
\* at the health gate of a route, and that request is waiting still.
C31_Witness ==
    \E q1, q2 \in DOMAIN reqs :
        /\ q1 < q2
        /\ reqs[q1].pc = "await" /\ probes[reqs[q1].awaiting].pc # "done"
        /\ activeHealthCheck[reqs[q1].route] = reqs[q1].awaiting
        /\ reqs[q2].kind = "http" /\ reqs[q2].status = 301

\* The in-flight health state of route r: its activeHealthCheck and its
\* probe sequences.
HealthState(r, ahc, ps) ==
    <<ahc[r], [p \in {o \in DOMAIN ps : ps[o].route = r} |-> ps[p]]>>

\* C32: every step changes the in-flight health state of at most one route;
\* a request or upgrade that reaches the health gate awaits a probe sequence
\* of the route it was matched to, and one that is resumed belongs to the
\* route whose state changed and gets the verdict of that route's sequence.
C32_HealthStatePerRoute ==
    [][LET changed == {r \in DOMAIN activeHealthCheck :
                          HealthState(r, activeHealthCheck', probes')
                              # HealthState(r, activeHealthCheck, probes)}
       IN  /\ Cardinality(changed) <= 1
           /\ \A q \in DOMAIN reqs' :
                  reqs'[q].awaiting # 0
                      => /\ probes'[reqs'[q].awaiting].route = reqs'[q].route
                         /\ reqs'[q].route = FindRoute(routes, reqs'[q].url)
                         /\ reqs'[q].verdict \in {"none", probes'[reqs'[q].awaiting].result}
           /\ \A q \in DOMAIN reqs :
                  reqs'[q] # reqs[q] => reqs[q].route \in changed
           /\ \A q \in DOMAIN reqs' \ DOMAIN reqs :
                  reqs'[q].awaiting # 0 => changed \subseteq {reqs'[q].route}]_vars

\* A request for one route was told its backend is unavailable while a
\* request for the other route, which arrived before that verdict, is still
\* waiting on the probe sequence of its own route.
C32_Witness ==
    \E q1, q2 \in DOMAIN reqs :
        /\ reqs[q1].route # 0 /\ reqs[q2].route # 0 /\ reqs[q1].route # reqs[q2].route
        /\ reqs[q1].verdict = "false"
        /\ reqs[q2].pc = "await" /\ probes[reqs[q2].awaiting].pc # "done"
        /\ probes[reqs[q2].awaiting].startTime < probes[reqs[q1].awaiting].resolvedAt

----------------------------------------------------------------------------
(* Following a redirect (SpecRedirect) *)

\* C33: the Location of a 301 matches no alias of the instance, and the
\* request a client makes for that Location is not answered 301.
C33_RedirectIsFinal ==
    \A q \in DOMAIN reqs :
        reqs[q].status = 301
            => /\ ~MatchesAnAlias(reqs[q].location)
               /\ q = 1

----------------------------------------------------------------------------
(* How long a request answered 502 was held (Spec) *)

\* The request or upgrade q was answered 502 because the probe sequence it
\* awaited resolved false.
Unavailable(q) ==
    reqs[q].awaiting # 0 /\ reqs[q].verdict = "false" /\ reqs[q].status = 502

\* C34, as claimed: every request or upgrade answered 502 for an unavailable
\* backend was held at the health gate for at least maxRetryMs from its own
\* arrival, also one that joined a probe sequence in flight.
C34_HeldForBudget ==
    \A q \in DOMAIN reqs :
        Unavailable(q)
            => probes[reqs[q].awaiting].resolvedAt - reqs[q].gateAt >= maxRetryMs

\* C34, amended: the probe sequence awaited by a request or upgrade answered
\* 502 for an unavailable backend ran for at least maxRetryMs; the request
\* reached the gate while it ran, the one that started it at its start, so
\* that one was held for at least maxRetryMs.
C34_SequenceRanForBudget ==
    \A q \in DOMAIN reqs :
        Unavailable(q)
            => LET p == probes[reqs[q].awaiting]
               IN  /\ p.resolvedAt - p.startTime >= maxRetryMs
                   /\ p.startTime <= reqs[q].gateAt /\ reqs[q].gateAt <= p.resolvedAt
                   /\ reqs[q].started
                          => /\ reqs[q].gateAt = p.startTime
                             /\ p.resolvedAt - reqs[q].gateAt >= maxRetryMs

\* A request joined a probe sequence in flight and was answered 502 less
\* than maxRetryMs after it arrived.
C34_Witness ==
    \E q \in DOMAIN reqs :
        /\ Unavailable(q) /\ ~reqs[q].started
        /\ reqs[q].gateAt > probes[reqs[q].awaiting].startTime
        /\ probes[reqs[q].awaiting].resolvedAt - reqs[q].gateAt < maxRetryMs


=============================================================================
